---- MODULE Spec2Model ----
(***************************************************************************)
(* HOR detection, scoring and block consolidation.                         *)
(*                                                                         *)
(*   09.HOR/02.windows/01.HOR_detection_and_scoring.py                     *)
(*       build_similarity_from_pairs, find_hors, compute_scores,           *)
(*       write_pairs, run_one                                              *)
(*   09.HOR/01.satellite/3.Batch_build_large_blocksize.py                  *)
(*       process_file                                                      *)
(*                                                                         *)
(* Indices are 0-based as in the Python lists; positions written to the    *)
(* pairs table are 1-based.  Identity values and thresholds are held in    *)
(* hundredths (0.96 is 96, 100.0 is 10000), so that the float comparisons  *)
(* of the source are integer comparisons here.  Python's None is the empty *)
(* tuple << >> and a present value x is << x >>.                           *)
(***************************************************************************)
EXTENDS Integers, Sequences, FiniteSets, TLC

VARIABLES
    pc,             \* position in the program
    arr,            \* labels in FASTA order, a function on 0..N-1
    header,         \* columns named by the header of the identity table
    table,          \* rows of the pairwise identity table
    scale,          \* --scale
    max_shift,      \* --max_shift
    id_threshold,   \* --id_threshold, in hundredths
    S,              \* the boolean similarity matrix
    thr,            \* effective threshold, in hundredths
    rowi,           \* next row of the second pass (1-based)
    miss_a, miss_b, total,
    min_block, max_block,
    hors,           \* list returned by find_hors
    forms, partners,\* compute_scores
    rows,           \* score rows returned by compute_scores
    pairs_file,     \* rows written by write_pairs / read by process_file
    score_file,     \* rows written by write_scores
    infile,         \* process_file: name of the pairs table
    df,             \* process_file: rows kept after filtering and parsing
    ri,             \* process_file: next row of df (1-based)
    in_block, seen_non3, start_a, last_b_of_start, max_bs, end_b_at_max,
    blocks,         \* process_file: segments emitted so far
    out,            \* process_file: rows of the returned frame
    run, prev,      \* repeated runs: number of the run, tables of the first
    fas, fi,        \* batch mode: the arrays matched by --fa_glob, the next
    runs,           \* find_hors: the runs (start, Lrun) detected per offset
    matched,        \* identity extraction: the FASTA files the pattern matches
    visited,        \* identity extraction: the files process_one was called on
    ok, fail        \* identity extraction: the two counters of main

relVars  == <<arr, header, table, scale, max_shift, id_threshold, S, thr, rowi,
              miss_a, miss_b, total>>
horVars  == <<min_block, max_block, hors, runs, forms, partners, rows,
              pairs_file, score_file>>
consVars == <<infile, df, ri, in_block, seen_non3, start_a, last_b_of_start,
              max_bs, end_b_at_max, blocks, out>>
mainVars == <<run, prev, fas, fi>>
extVars  == <<matched, visited, ok, fail>>
vars     == <<pc, relVars, horVars, consVars, mainVars, extVars>>

None == << >>
Some(x) == << x >>

Min2(a, b) == IF a <= b THEN a ELSE b
Abs(x) == IF x < 0 THEN 0 - x ELSE x

N == Cardinality(DOMAIN arr)

\* The name of a pairs table, as the sequence of its characters.
PairsName == <<"c", ".", "w", "2">>

\* A single run outside batch mode, nothing written or returned yet.
OneRun == run = 1 /\ prev = None /\ fas = << >> /\ fi = 1
NoOutput == rows = << >> /\ score_file = << >> /\ out = << >>
                /\ runs = << >>

\* The identity extraction is not running.
NoExtract == matched = << >> /\ visited = << >> /\ ok = 0 /\ fail = 0

(***************************************************************************)
(* Bounds of the model.                                                    *)
(***************************************************************************)
RelN    == 3    \* labels of the array in the relation-building runs
MaxRows == 2    \* rows of the identity table

(***************************************************************************)
(* Inputs of build_similarity_from_pairs.                                  *)
(***************************************************************************)
LabelSeq == <<"m1", "m2", "m3", "m4", "m5", "m6", "m7", "m8", "m9", "m10",
             "m11", "m12">>
LabelName(i) == LabelSeq[i + 1]

\* Cells of the label columns: three labels, one of them padded, and a label
\* that is in no array.
PaddedCell == " m2 "
AbsentCell == "zz"
LabelCells == {"m1", PaddedCell, "m3", AbsentCell}

\* str.strip() on the cells above.
Strip(s) == IF s = PaddedCell THEN "m2" ELSE s

\* Cells of the identity column and float() of them, in hundredths;
\* None stands for the ValueError float() raises.
IdenCells == {"NA", "1.5", "100.0"}
Float(s) == CASE s = "1.5"   -> Some(150)
              [] s = "100.0" -> Some(10000)
              [] OTHER       -> None

Rows == [a : LabelCells, b : LabelCells, iden : IdenCells]

\* The columns --col_a, --col_b and --identity_col name; the header of a
\* table is the set of those it has.
Columns == {"a", "b", "iden"}

\* Line 71: float(r[col_iden]); None for the KeyError of a missing column
\* and for the ValueError of float().
IdenOf(r) == IF "iden" \in header THEN Float(r.iden) ELSE None

\* Lines 126-131: the try block of the second pass; None when r[col_a],
\* r[col_b] or r[col_iden] raises KeyError or float() raises ValueError.
RowVal(r) == IF Columns \subseteq header THEN Float(r.iden) ELSE None
Tables == UNION {[1..n -> Rows] : n \in 0..MaxRows}
Scales == {"auto", "percent", "fraction"}
ShiftCfg == {0, 1}
DefaultIdThreshold == 96

\* idx = {lab: i for i, lab in enumerate(labels)}; idx.get(lab)
IdxGet(lab) ==
    LET hits == {i \in DOMAIN arr : arr[i] = lab}
    IN  IF hits = {} THEN None
        ELSE Some(CHOOSE i \in hits : \A j \in hits : j <= i)

\* pairs_identity_max: the loop over the rows, mx starting at -1.0.
RECURSIVE IdentityMaxFrom(_, _, _)
IdentityMaxFrom(t, k, mx) ==
    IF k > Len(t) THEN mx
    ELSE LET val == IdenOf(t[k])
         IN  IF val # None /\ val[1] > mx
             THEN IdentityMaxFrom(t, k + 1, val[1])
             ELSE IdentityMaxFrom(t, k + 1, mx)

\* Mutant: the maximum is returned even when no value was numeric.
PairsIdentityMaxNoRaise(t) == Some(IdentityMaxFrom(t, 1, 0 - 100))

\* None when it raises ValueError("No numeric identity found").
pairs_identity_max(t) ==
    LET mx == IdentityMaxFrom(t, 1, 0 - 100)
    IN  IF mx < 0 THEN None ELSE Some(mx)

\* Mutant: the fraction scale taken only up to 1.0.
UseFractionUpToOne(sc, t) ==
    IF sc = "auto" THEN pairs_identity_max(t)[1] <= 100
    ELSE sc = "fraction"

UseFraction(sc, t) ==
    IF sc = "auto" THEN pairs_identity_max(t)[1] <= 150
    ELSE sc = "fraction"

Threshold(use_fraction, idt) == IF use_fraction THEN idt ELSE idt * 100

DiagonalMatrix(n) == [i \in 0..(n - 1) |-> [j \in 0..(n - 1) |-> i = j]]

\* Mutant: only S[ia][ib] is set.
SetPairOneWay(M, ia, ib) ==
    [i \in DOMAIN M |-> [j \in DOMAIN M[i] |->
        IF i = ia /\ j = ib THEN TRUE ELSE M[i][j]]]

\* S[ia][ib] = True; S[ib][ia] = True
SetPair(M, ia, ib) ==
    [i \in DOMAIN M |-> [j \in DOMAIN M[i] |->
        IF (i = ia /\ j = ib) \/ (i = ib /\ j = ia) THEN TRUE ELSE M[i][j]]]

\* Mutant: the cap is applied even when max_shift is 0.
ShiftSkipsAlways(ms, ia, ib) == Abs(ib - ia) > ms

\* The row is skipped by `max_shift > 0 and abs(ib - ia) > max_shift`.
ShiftSkips(ms, ia, ib) == ms > 0 /\ Abs(ib - ia) > ms

InitRel ==
    /\ pc = "build"
    /\ arr = [i \in 0..(RelN - 1) |-> LabelName(i)]
    /\ header = Columns
    /\ table \in Tables
    /\ scale \in Scales
    /\ max_shift \in ShiftCfg
    /\ id_threshold = DefaultIdThreshold
    /\ S = << >>
    /\ thr = 0
    /\ rowi = 1
    /\ miss_a = 0 /\ miss_b = 0 /\ total = 0
    /\ min_block = 3 /\ max_block = 10
    /\ hors = << >> /\ forms = << >> /\ partners = << >> /\ pairs_file = << >>
    /\ df = << >> /\ ri = 1
    /\ in_block = FALSE /\ seen_non3 = FALSE
    /\ start_a = None /\ last_b_of_start = None
    /\ max_bs = None /\ end_b_at_max = None
    /\ blocks = << >>
    /\ infile = PairsName /\ NoOutput /\ OneRun /\ NoExtract

\* Lines 99-117: the matrix with its diagonal, the scale and the threshold.
BuildStart ==
    /\ pc = "build"
    /\ S' = DiagonalMatrix(N)
    /\ IF scale = "auto" /\ pairs_identity_max(table) = None
       THEN /\ pc' = "ValueError"
            /\ thr' = thr
       ELSE /\ pc' = "fill"
            /\ thr' = Threshold(UseFraction(scale, table), id_threshold)
    /\ rowi' = 1 /\ miss_a' = 0 /\ miss_b' = 0 /\ total' = 0
    /\ UNCHANGED <<arr, header, table, scale, max_shift, id_threshold, horVars,
                   consVars, mainVars, extVars>>

\* Lines 132-146 for a row whose three cells parsed: the matrix after the row.
FillS(M, ms, t, val, ia, ib) ==
    IF /\ val # None /\ ia # None /\ ib # None
       /\ ia # ib
       /\ ~ShiftSkips(ms, ia[1], ib[1])
       /\ val[1] >= t
    THEN SetPair(M, ia[1], ib[1])
    ELSE M

\* Lines 126-135 and 136-139: the two counters of unmatched labels.  A row
\* whose identity cell does not parse is left by `continue` before idx.get.
MissA(n, val, ia) == IF val # None /\ ia = None THEN n + 1 ELSE n
\* Mutant: an unmatched label B is not counted.
MissBForgotten(n, val, ia, ib) == n

MissB(n, val, ia, ib) ==
    IF val # None /\ ia # None /\ ib = None THEN n + 1 ELSE n

\* Lines 124-146: one iteration of the second pass.
FillRow ==
    /\ pc = "fill"
    /\ rowi <= Len(table)
    /\ LET r   == table[rowi]
           val == RowVal(r)
           ia  == IdxGet(Strip(r.a))
           ib  == IdxGet(Strip(r.b))
       IN  /\ total' = total + 1
           /\ miss_a' = MissA(miss_a, val, ia)
           /\ miss_b' = MissB(miss_b, val, ia, ib)
           /\ S' = FillS(S, max_shift, thr, val, ia, ib)
    /\ rowi' = rowi + 1
    /\ UNCHANGED <<pc, arr, header, table, scale, max_shift, id_threshold,
                   thr, horVars, consVars, mainVars, extVars>>

\* Lines 148-150: the loop is over, S is returned.
ReturnS ==
    /\ pc = "fill"
    /\ rowi > Len(table)
    /\ pc' = "built"
    /\ UNCHANGED <<relVars, horVars, consVars, mainVars, extVars>>

NextRel == BuildStart \/ FillRow \/ ReturnS

SpecRel == InitRel /\ [][NextRel]_vars

(***************************************************************************)
(* find_hors                                                               *)
(***************************************************************************)
\* list(range(lo, hi))
PyRange(lo, hi) == [k \in 1..(hi - lo) |-> lo + k - 1]

\* Mutant: a_start and b_start are stored 1-based, like the positions.
HorRecordOneBased(labels, L, d, a0) ==
    LET b0   == a0 + d
        Apos == PyRange(a0 + 1, a0 + L + 1)
        Bpos == PyRange(b0 + 1, b0 + L + 1)
    IN  [block_size |-> L, shift |-> d, a_start |-> a0 + 1, b_start |-> b0 + 1,
         A_pos |-> Apos, B_pos |-> Bpos,
         A_labels |-> [k \in DOMAIN Apos |-> labels[Apos[k] - 1]],
         B_labels |-> [k \in DOMAIN Bpos |-> labels[Bpos[k] - 1]]]

\* Lines 177-191: the record appended for block size L at start a0.
HorRecord(labels, L, d, a0) ==
    LET b0   == a0 + d
        Apos == PyRange(a0 + 1, a0 + L + 1)
        Bpos == PyRange(b0 + 1, b0 + L + 1)
    IN  [block_size |-> L, shift |-> d, a_start |-> a0, b_start |-> b0,
         A_pos |-> Apos, B_pos |-> Bpos,
         A_labels |-> [k \in DOMAIN Apos |-> labels[Apos[k] - 1]],
         B_labels |-> [k \in DOMAIN Bpos |-> labels[Bpos[k] - 1]]]

RECURSIVE BlocksFrom(_, _, _, _, _, _)

\* Mutant: the last placement of every block size is left out.
BlocksFromOneFewer(labels, L, maxL, start, Lrun, d) ==
    IF L > maxL THEN << >>
    ELSE [off \in 1..(Lrun - L) |-> HorRecord(labels, L, d, start + off - 1)]
            \o BlocksFrom(labels, L + 1, maxL, start, Lrun, d)

\* Lines 175-192: for L in range(min_block, maxL + 1), for off in
\* range(0, Lrun - L + 1), in that order.
BlocksFrom(labels, L, maxL, start, Lrun, d) ==
    IF L > maxL THEN << >>
    ELSE [off \in 1..(Lrun - L + 1) |-> HorRecord(labels, L, d, start + off - 1)]
            \o BlocksFrom(labels, L + 1, maxL, start, Lrun, d)

\* Mutant: the run is not extended beyond its first pair.
RunEndOneStep(M, d, end, k) == k

\* Lines 170-173: the index k at which the run that starts before k stops.
RECURSIVE RunEnd(_, _, _, _)
RunEnd(M, d, end, k) ==
    IF k < end /\ M[k][k + d] THEN RunEnd(M, d, end, k + 1) ELSE k

\* Mutant: the scan resumes one past the start of the run, inside it.
ResumeInside(start, k) == start + 1

\* Line 193: i = k, the scan resumes after the run.
Resume(start, k) == k

\* Lines 166-195: the while loop over i for one offset d.
RECURSIVE ScanFrom(_, _, _, _, _, _)
ScanFrom(labels, M, minb, maxb, d, i) ==
    LET end == Cardinality(DOMAIN labels) - d
    IN  IF i >= end THEN << >>
        ELSE IF M[i][i + d]
             THEN LET k    == RunEnd(M, d, end, i + 1)
                      Lrun == k - i
                      maxL == Min2(Lrun, maxb)
                  IN  BlocksFrom(labels, minb, maxL, i, Lrun, d)
                        \o ScanFrom(labels, M, minb, maxb, d, Resume(i, k))
             ELSE ScanFrom(labels, M, minb, maxb, d, i + 1)

\* Lines 163-196: for d in range(1, N).
RECURSIVE OffsetsFrom(_, _, _, _, _)
OffsetsFrom(labels, M, minb, maxb, d) ==
    IF d >= Cardinality(DOMAIN labels) THEN << >>
    ELSE ScanFrom(labels, M, minb, maxb, d, 0)
            \o OffsetsFrom(labels, M, minb, maxb, d + 1)

find_hors(labels, M, minb, maxb) == OffsetsFrom(labels, M, minb, maxb, 1)

\* Lines 166-173 and 193-195: the values <<start, Lrun>> the while loop
\* takes for offset d, in the order of the scan.
RECURSIVE RunsFrom(_, _, _, _)
RunsFrom(M, n, d, i) ==
    LET end == n - d
    IN  IF i >= end THEN << >>
        ELSE IF M[i][i + d]
             THEN LET k == RunEnd(M, d, end, i + 1)
                  IN  << <<i, k - i>> >> \o RunsFrom(M, n, d, Resume(i, k))
             ELSE RunsFrom(M, n, d, i + 1)

\* Lines 163-196: the runs of every offset d in range(1, N).
detected_runs(labels, M) ==
    [d \in 1..(Cardinality(DOMAIN labels) - 1) |->
        RunsFrom(M, Cardinality(DOMAIN labels), d, 0)]

(***************************************************************************)
(* compute_scores                                                          *)
(***************************************************************************)
\* Lines 244-248: the iterations <<k, t>> of `for h in hors` (record k) and
\* `for t in range(L)`.
Iterations(hs) ==
    UNION {{<<k, t>> : t \in 0..(hs[k].block_size - 1)} : k \in 1..Len(hs)}

\* Mutant: only the unit of the first block is credited (the superseded
\* version of the function).
CreditsOneWay(h, t) == {<<"A", h.a_start + t, h.b_start + t>>}

\* Mutant: the unit of the second block is given itself as partner.
CreditsToSelf(h, t) ==
    {<<"A", h.a_start + t, h.b_start + t>>,
     <<"B", h.b_start + t, h.b_start + t>>}

\* Lines 249-263: the two credits of one iteration, each <<block, unit,
\* partner>>: i = a0 + t gets j = b0 + t as a partner, and j gets i.
Credits(h, t) ==
    {<<"A", h.a_start + t, h.b_start + t>>,
     <<"B", h.b_start + t, h.a_start + t>>}

\* All credits given to unit i, each with the iteration that gave it.
CreditsTo(hs, i) ==
    UNION {{<<it, c>> : c \in {x \in Credits(hs[it[1]], it[2]) : x[2] = i}} :
              it \in Iterations(hs)}

\* Lines 241-263: forms and partners after all records.  Every credit adds 1
\* to forms[unit] and adds arr[partner] to partners[unit], so the counters
\* and sets after the loops are the number and the labels of the credits.
compute_scores(labels, hs) ==
    [forms    |-> [i \in DOMAIN labels |-> Cardinality(CreditsTo(hs, i))],
     partners |-> [i \in DOMAIN labels |->
                      {labels[x[2][3]] : x \in CreditsTo(hs, i)}]]

\* Line 267 and the format of line 275: 100.0 * uniq / N written with six
\* decimals, held in millionths of a percent (rounded to the nearest).
ScorePct(uniq, n) ==
    IF n > 0 THEN (200000000 * uniq + n) \div (2 * n) ELSE 0

\* Lines 264-279: one row per position, in array order.
score_rows(labels, st) ==
    [k \in 1..Cardinality(DOMAIN labels) |->
        [pos |-> k, label |-> labels[k - 1],
         HORs_the_repeat_forms |-> st.forms[k - 1],
         Unique_partners_in_2nd_block |-> Cardinality(st.partners[k - 1]),
         HOR_score_percent |->
             ScorePct(Cardinality(st.partners[k - 1]),
                      Cardinality(DOMAIN labels))]]

(***************************************************************************)
(* write_pairs, write_scores                                               *)
(***************************************************************************)
\* Mutant: HOR_ID goes on from the rows of the table already there.
WritePairsNumberedOn(hs) ==
    [k \in 1..Len(hs) |->
        [HOR_ID |-> Len(pairs_file) + k, block_size |-> hs[k].block_size,
         shift |-> hs[k].shift,
         a_start |-> hs[k].a_start + 1, b_start |-> hs[k].b_start + 1,
         A_pos |-> hs[k].A_pos, B_pos |-> hs[k].B_pos]]

\* Lines 284-289: one row per record, HOR_ID counting from 1, a_start and
\* b_start made 1-based.  A position cell "p1;p2;..." is held as the
\* sequence of its numbers.
write_pairs(hs) ==
    [k \in 1..Len(hs) |->
        [HOR_ID |-> k, block_size |-> hs[k].block_size, shift |-> hs[k].shift,
         a_start |-> hs[k].a_start + 1, b_start |-> hs[k].b_start + 1,
         A_pos |-> hs[k].A_pos, B_pos |-> hs[k].B_pos]]

\* Lines 292-299: one line per row, the five columns in their order.
write_scores(rs) ==
    [k \in 1..Len(rs) |->
        <<rs[k].pos, rs[k].label, rs[k].HORs_the_repeat_forms,
          rs[k].Unique_partners_in_2nd_block, rs[k].HOR_score_percent>>]

(***************************************************************************)
(* run_one, from the relation on                                           *)
(***************************************************************************)
\* Line 332
FindHors ==
    /\ pc = "built"
    /\ hors' = find_hors(arr, S, min_block, max_block)
    /\ runs' = detected_runs(arr, S)
    /\ pc' = "found"
    /\ UNCHANGED <<relVars, min_block, max_block, forms, partners, rows,
                   pairs_file, score_file, consVars, mainVars, extVars>>

\* Line 333
ComputeScores ==
    /\ pc = "found"
    /\ LET st == compute_scores(arr, hors)
       IN  /\ forms' = st.forms /\ partners' = st.partners
           /\ rows' = score_rows(arr, st)
    /\ pc' = "scored"
    /\ UNCHANGED <<relVars, min_block, max_block, hors, runs, pairs_file,
                   score_file,
                   consVars, mainVars, extVars>>

\* Lines 335-336
WritePairs ==
    /\ pc = "scored"
    /\ pairs_file' = write_pairs(hors)
    /\ score_file' = write_scores(rows)
    /\ pc' = "written"
    /\ UNCHANGED <<relVars, min_block, max_block, hors, runs, forms, partners,
                   rows,
                   consVars, mainVars, extVars>>

(***************************************************************************)
(* process_file                                                            *)
(***************************************************************************)
\* first_int / last_int on a position cell; None for an empty cell or one
\* without digits.
first_int(cell) == IF cell = << >> THEN None ELSE Some(cell[1])
\* A variant that takes the first number of the cell.
LastIntIsFirst(cell) == IF cell = << >> THEN None ELSE Some(cell[1])

last_int(cell) == IF cell = << >> THEN None ELSE Some(cell[Len(cell)])

\* Mutant: rows of every shift are kept.
ParsedAnyShift(r) ==
    first_int(r.A_pos) # None /\ last_int(r.B_pos) # None

\* Lines 50 and 59: the rows kept by the shift filter and by dropna.
Parsed(r) ==
    r.shift = 1 /\ first_int(r.A_pos) # None /\ last_int(r.B_pos) # None

\* Lines 50-59: the rows of shift 1 whose cells parse, in file order, each
\* with its block size, first integer of A_pos and last integer of B_pos.
LoadFrom(file) ==
    LET kept == SelectSeq(file, Parsed)
    IN  [k \in 1..Len(kept) |->
            [bs |-> kept[k].block_size,
             a  |-> first_int(kept[k].A_pos)[1],
             b  |-> last_int(kept[k].B_pos)[1]]]

\* Lines 92-97 and 124-129: the segment appended to blocks.
Segment(start, final_end, mbs) ==
    [mono_start |-> start, mono_end |-> final_end,
     mono_count |-> final_end - start + 1,
     blocksize_max |-> IF mbs # None THEN mbs[1] ELSE 3]

\* Lines 81-86 and 99-104: a segment is opened at the current record.
OpenAt(st, r) ==
    [st EXCEPT !.in_block = TRUE, !.seen_non3 = FALSE,
               !.start_a = Some(r.a), !.last_b_of_start = Some(r.b),
               !.max_bs = Some(3), !.end_b_at_max = Some(r.b)]

\* Mutant: a repeated maximum keeps the first occurrence's end.
LargerFirstWins(st, r) ==
    IF st.in_block
    THEN IF st.max_bs = None \/ r.bs > st.max_bs[1]
         THEN [st EXCEPT !.seen_non3 = TRUE, !.max_bs = Some(r.bs),
                         !.end_b_at_max = Some(r.b)]
         ELSE [st EXCEPT !.seen_non3 = TRUE]
    ELSE st

\* Lines 108-119: a record whose block_size is not 3.
Larger(st, r) ==
    IF st.in_block
    THEN IF st.max_bs = None \/ r.bs > st.max_bs[1]
         THEN [st EXCEPT !.seen_non3 = TRUE, !.max_bs = Some(r.bs),
                         !.end_b_at_max = Some(r.b)]
         ELSE IF r.bs = st.max_bs[1]
              THEN [st EXCEPT !.seen_non3 = TRUE, !.end_b_at_max = Some(r.b)]
              ELSE [st EXCEPT !.seen_non3 = TRUE]
    ELSE st

\* Mutant: the segment is closed at the running end of its run of 3s.
CloseEndRunning(st) == st.last_b_of_start[1]

\* Line 91: final_end of a segment closed by a later 3.
CloseEnd(st) ==
    IF st.end_b_at_max # None THEN st.end_b_at_max[1]
    ELSE st.last_b_of_start[1]

\* Mutant: a 3 that extends the run also moves the end kept for the maximum.
ThreeExtendsMax(st, r) ==
    IF ~st.in_block THEN OpenAt(st, r)
    ELSE IF st.seen_non3
         THEN LET closed == [st EXCEPT !.blocks =
                                Append(@, Segment(st.start_a[1], CloseEnd(st),
                                                  st.max_bs))]
              IN  OpenAt(closed, r)
         ELSE [st EXCEPT !.last_b_of_start = Some(r.b),
                         !.end_b_at_max = Some(r.b)]

\* Lines 78-107: a record whose block_size is 3.
Three(st, r) ==
    IF ~st.in_block THEN OpenAt(st, r)
    ELSE IF st.seen_non3
         THEN LET closed == [st EXCEPT !.blocks =
                                Append(@, Segment(st.start_a[1], CloseEnd(st),
                                                  st.max_bs))]
              IN  OpenAt(closed, r)
         ELSE [st EXCEPT !.last_b_of_start = Some(r.b)]

\* Mutant: outside a segment, a record of any size opens one.
ConsumeOpensOnAny(st, r) ==
    IF r.bs = 3 \/ ~st.in_block THEN Three(st, r) ELSE Larger(st, r)

\* Lines 73-119: the body of the loop for one record.
Consume(st, r) == IF r.bs = 3 THEN Three(st, r) ELSE Larger(st, r)

\* Mutant: the open segment always ends at the running end of its 3s.
AtEndRunningEnd(st) ==
    IF st.in_block
    THEN [st EXCEPT !.blocks =
             Append(@, Segment(st.start_a[1], st.last_b_of_start[1],
                               st.max_bs))]
    ELSE st

\* Mutant: the open segment is emitted only if a larger block was seen.
AtEndOnlyIfLarger(st) ==
    IF st.in_block /\ st.seen_non3
    THEN [st EXCEPT !.blocks =
             Append(@, Segment(st.start_a[1], st.end_b_at_max[1], st.max_bs))]
    ELSE st

\* Lines 122-129: the segment still open at the end of the file.
AtEnd(st) ==
    IF st.in_block
    THEN LET final_end == IF st.seen_non3 /\ st.end_b_at_max # None
                          THEN st.end_b_at_max[1]
                          ELSE st.last_b_of_start[1]
         IN  [st EXCEPT !.blocks =
                 Append(@, Segment(st.start_a[1], final_end, st.max_bs))]
    ELSE st

\* The decimal digits and int() of one of them.
DigitSeq == <<"0", "1", "2", "3", "4", "5", "6", "7", "8", "9">>
Digits == {DigitSeq[k] : k \in DOMAIN DigitSeq}
DigitVal(c) == (CHOOSE k \in DOMAIN DigitSeq : DigitSeq[k] = c) - 1

\* int() of the digits of a name from position p on, as far as they go.
RECURSIVE IntFrom(_, _, _)
IntFrom(name, p, acc) ==
    IF p <= Len(name) /\ name[p] \in Digits
    THEN IntFrom(name, p + 1, acc * 10 + DigitVal(name[p]))
    ELSE acc

\* Lines 34-37: re.search(r"w(\d+)", name), the leftmost "w" followed by a
\* digit, and all the digits after it; None when there is no match.  A name
\* is the sequence of its characters.
get_w_from_filename(name) ==
    LET hits == {p \in 1..(Len(name) - 1) :
                    name[p] = "w" /\ name[p + 1] \in Digits}
    IN  IF hits = {} THEN None
        ELSE Some(IntFrom(name, (CHOOSE p \in hits : \A q \in hits : p <= q) + 1,
                          0))

\* Mutant: a window size of 0 is multiplied like any other.
WinBpOfAnyW(count, w) == IF w # None THEN Some(count * w[1]) ELSE None

\* Line 140: mono_count * w if w else None (w None or 0 gives no value).
win_bp(count, w) ==
    IF w # None /\ w[1] # 0 THEN Some(count * w[1]) ELSE None

\* Lines 131-148: the returned frame, one row per segment with block_idx
\* from 1, the file name, w and win_bp; an empty frame stays empty.
OutFrame(name, segs) ==
    LET w == get_w_from_filename(name)
    IN  [k \in 1..Len(segs) |->
            [file |-> name, block_idx |-> k,
             mono_start |-> segs[k].mono_start, mono_end |-> segs[k].mono_end,
             mono_count |-> segs[k].mono_count,
             blocksize_max |-> segs[k].blocksize_max,
             w |-> w, win_bp |-> win_bp(segs[k].mono_count, w)]]

\* Lines 64-71: the state before the first record.
StartState ==
    [in_block |-> FALSE, seen_non3 |-> FALSE, start_a |-> None,
     last_b_of_start |-> None, max_bs |-> None, end_b_at_max |-> None,
     blocks |-> << >>]

\* Lines 73-119: the state after the first k records of recs.
RECURSIVE StateAfter(_, _)
StateAfter(recs, k) ==
    IF k = 0 THEN StartState
    ELSE Consume(StateAfter(recs, k - 1), recs[k])

\* Lines 42-133: the segments process_file emits for the rows of a table.
Segments(file) ==
    LET recs == LoadFrom(file)
    IN  AtEnd(StateAfter(recs, Len(recs))).blocks

ConsState ==
    [in_block |-> in_block, seen_non3 |-> seen_non3, start_a |-> start_a,
     last_b_of_start |-> last_b_of_start, max_bs |-> max_bs,
     end_b_at_max |-> end_b_at_max, blocks |-> blocks]

SetConsState(st) ==
    /\ in_block' = st.in_block /\ seen_non3' = st.seen_non3
    /\ start_a' = st.start_a /\ last_b_of_start' = st.last_b_of_start
    /\ max_bs' = st.max_bs /\ end_b_at_max' = st.end_b_at_max
    /\ blocks' = st.blocks

\* Lines 42-71: the table is read, filtered and parsed; an empty result
\* returns an empty frame.
LoadPairs ==
    /\ pc = "written"
    /\ df' = LoadFrom(pairs_file)
    /\ ri' = 1
    /\ pc' = IF df' = << >> THEN "done" ELSE "loop"
    /\ SetConsState([in_block |-> FALSE, seen_non3 |-> FALSE,
                     start_a |-> None, last_b_of_start |-> None,
                     max_bs |-> None, end_b_at_max |-> None,
                     blocks |-> << >>])
    /\ out' = << >>
    /\ UNCHANGED <<infile, relVars, horVars, mainVars, extVars>>

\* Lines 73-119
ConsumeRecord ==
    /\ pc = "loop"
    /\ ri <= Len(df)
    /\ SetConsState(Consume(ConsState, df[ri]))
    /\ ri' = ri + 1
    /\ UNCHANGED <<pc, infile, df, out, relVars, horVars, mainVars, extVars>>

\* Lines 121-133
Finish ==
    /\ pc = "loop"
    /\ ri > Len(df)
    /\ SetConsState(AtEnd(ConsState))
    /\ out' = OutFrame(infile, AtEnd(ConsState).blocks)
    /\ pc' = "done"
    /\ UNCHANGED <<infile, df, ri, relVars, horVars, mainVars, extVars>>

(***************************************************************************)
(* The pipeline from a relation: run_one from line 332 on, then            *)
(* process_file on the pairs table it wrote.                               *)
(***************************************************************************)
MaxN        == 4    \* arrays up to MaxN take every symmetric relation
FullN       == 6    \* arrays up to FullN take the relation of all pairs
SegN        == 9    \* longer arrays, up to SegN, take the banded relations
MaxBlockCfg == 4    \* --min_block and --max_block range over -1..MaxBlockCfg

Pairs(n) == {p \in (0..(n - 1)) \X (0..(n - 1)) : p[1] < p[2]}

RelationOf(n, P) ==
    [i \in 0..(n - 1) |-> [j \in 0..(n - 1) |->
        i = j \/ <<i, j>> \in P \/ <<j, i>> \in P]]

\* Every symmetric relation with a true diagonal on n labels.
AllRelations(n) == {RelationOf(n, P) : P \in SUBSET Pairs(n)}

\* The relations max_shift = 1 can build: only adjacent labels related.
BandedRelations(n) ==
    {RelationOf(n, P) : P \in SUBSET {p \in Pairs(n) : p[2] = p[1] + 1}}

\* The relation in which every pair is related.
FullRelation(n) == RelationOf(n, Pairs(n))

Relations(n) ==
    IF n <= MaxN THEN AllRelations(n)
    ELSE IF n <= FullN THEN BandedRelations(n) \cup {FullRelation(n)}
    ELSE BandedRelations(n)

BlockCfg == (0 - 1)..MaxBlockCfg

InitHor ==
    /\ pc = "built"
    /\ \E n \in 1..SegN :
          /\ arr = [i \in 0..(n - 1) |-> LabelName(i)]
          /\ S \in Relations(n)
    /\ min_block \in BlockCfg
    /\ max_block \in BlockCfg
    /\ header = Columns /\ table = << >> /\ scale = "auto" /\ max_shift = 0
    /\ id_threshold = DefaultIdThreshold /\ thr = DefaultIdThreshold
    /\ rowi = 1 /\ miss_a = 0 /\ miss_b = 0 /\ total = 0
    /\ hors = << >> /\ forms = << >> /\ partners = << >> /\ pairs_file = << >>
    /\ df = << >> /\ ri = 1
    /\ in_block = FALSE /\ seen_non3 = FALSE
    /\ start_a = None /\ last_b_of_start = None
    /\ max_bs = None /\ end_b_at_max = None
    /\ blocks = << >>
    /\ infile = PairsName /\ NoOutput /\ OneRun /\ NoExtract

Next == FindHors \/ ComputeScores \/ WritePairs \/ LoadPairs
           \/ ConsumeRecord \/ Finish

Spec == InitHor /\ [][Next]_vars

(***************************************************************************)
(* process_file on a pairs table of any origin.                            *)
(***************************************************************************)
MaxRecs == 4    \* rows of the table

\* Row k of a table: a block of bs positions and its copy sh further on, at
\* positions that grow with k.  A block size below 1 gives empty cells.
FileRow(k, bs, sh) ==
    LET a == 2 * k - 1
    IN  [HOR_ID |-> k, block_size |-> bs, shift |-> sh,
         a_start |-> a, b_start |-> a + sh,
         A_pos |-> PyRange(a, a + bs), B_pos |-> PyRange(a + sh, a + sh + bs)]

SizeCells  == {0, 2, 3, 5, 7}
ShiftCells == {1, 2}
RowKinds == SizeCells \X ShiftCells

GeneralFiles ==
    UNION {{[k \in 1..n |-> FileRow(k, f[k][1], f[k][2])] :
              f \in [1..n -> RowKinds]} : n \in 0..MaxRecs}

\* The stream of the specification's example, all rows at shift 1.
TraceSizes == <<3, 3, 5, 3, 7, 3>>
TraceFile == [k \in 1..Len(TraceSizes) |-> FileRow(k, TraceSizes[k], 1)]

\* Names of pairs tables: with a window size, with a "w" that no digit
\* follows before the window size, with a window size of 0, and without one.
FileNames == {PairsName, <<"w", "x", "w", "1", "0">>, <<"w", "0">>,
              <<"c", "1">>}

InitCons ==
    /\ pc = "written"
    /\ pairs_file \in GeneralFiles \cup {TraceFile}
    /\ arr = << >> /\ S = << >>
    /\ min_block = 3 /\ max_block = 10
    /\ header = Columns /\ table = << >> /\ scale = "auto" /\ max_shift = 0
    /\ id_threshold = DefaultIdThreshold /\ thr = DefaultIdThreshold
    /\ rowi = 1 /\ miss_a = 0 /\ miss_b = 0 /\ total = 0
    /\ hors = << >> /\ forms = << >> /\ partners = << >>
    /\ df = << >> /\ ri = 1
    /\ in_block = FALSE /\ seen_non3 = FALSE
    /\ start_a = None /\ last_b_of_start = None
    /\ max_bs = None /\ end_b_at_max = None
    /\ blocks = << >>
    /\ infile \in FileNames /\ NoOutput /\ OneRun /\ NoExtract

NextCons == LoadPairs \/ ConsumeRecord \/ Finish

SpecCons == InitCons /\ [][NextCons]_vars

(***************************************************************************)
(* run_one from its first line, run twice on the same inputs.              *)
(***************************************************************************)
RunN    == 2    \* labels of the array in whole runs: 0..RunN
RunRows == 1    \* rows of the identity table in whole runs

\* Lines 41-48 and 321: read_fa_order returns the labels of the FASTA, and
\* raises ValueError for a FASTA without records.
ReadFa ==
    /\ pc = "read"
    /\ pc' = IF N = 0 THEN "EmptyFasta" ELSE "build"
    /\ UNCHANGED <<relVars, horVars, consVars, mainVars, extVars>>

\* Lines 405-421 once more: the program is started a second time on the
\* same FASTA, table and options; the tables of the first run are kept
\* aside to be compared.
Rerun ==
    /\ pc = "written" /\ run = 1
    /\ prev' = Some([pairs |-> pairs_file, scores |-> score_file])
    /\ run' = 2
    /\ pc' = "read"
    /\ UNCHANGED <<relVars, horVars, consVars, fas, fi, extVars>>

\* Rows of the identity tables of whole runs.
RunRowSet == [a : {"m1", AbsentCell}, b : {PaddedCell}, iden : IdenCells]
RunTables == UNION {[1..n -> RunRowSet] : n \in 0..RunRows}

\* Headers: complete, or lacking one of the three configured columns.
Headers == {Columns} \cup {Columns \ {c} : c \in Columns}

InitRun ==
    /\ pc = "read"
    /\ \E n \in 0..RunN : arr = [i \in 0..(n - 1) |-> LabelName(i)]
    /\ header \in Headers
    /\ table \in RunTables
    /\ scale \in Scales
    /\ max_shift = 0
    /\ id_threshold = DefaultIdThreshold
    /\ S = << >>
    /\ thr = 0
    /\ rowi = 1
    /\ miss_a = 0 /\ miss_b = 0 /\ total = 0
    /\ min_block \in {1, 3} /\ max_block = 10
    /\ hors = << >> /\ forms = << >> /\ partners = << >> /\ pairs_file = << >>
    /\ df = << >> /\ ri = 1
    /\ in_block = FALSE /\ seen_non3 = FALSE
    /\ start_a = None /\ last_b_of_start = None
    /\ max_bs = None /\ end_b_at_max = None
    /\ blocks = << >>
    /\ infile = PairsName /\ NoOutput /\ OneRun /\ NoExtract

NextRun == ReadFa \/ BuildStart \/ FillRow \/ ReturnS \/ FindHors
              \/ ComputeScores \/ WritePairs \/ Rerun

SpecRun == InitRun /\ [][NextRun]_vars

(***************************************************************************)
(* main in batch mode (--fa_glob): run_one for every FASTA matched.        *)
(***************************************************************************)
BatchLen == 2   \* FASTA files matched by --fa_glob: 0..BatchLen

\* A matched FASTA: its number of records, whether its pairs table exists,
\* and the rows of that table.
BatchTables == {<< >>,
                <<[a |-> "m1", b |-> PaddedCell, iden |-> "NA"]>>,
                <<[a |-> "m1", b |-> PaddedCell, iden |-> "1.5"]>>}
Arrays == [n : {0, RunN}, pairs_exist : BOOLEAN, rows : BatchTables]
Batches == UNION {[1..n -> Arrays] : n \in 0..BatchLen}

InitBatch ==
    /\ pc = "main"
    /\ fas \in Batches
    /\ fi = 1
    /\ run = 1 /\ prev = None
    /\ arr = << >>
    /\ header = Columns
    /\ table = << >>
    /\ scale \in Scales
    /\ max_shift = 0
    /\ id_threshold = DefaultIdThreshold
    /\ S = << >>
    /\ thr = 0
    /\ rowi = 1
    /\ miss_a = 0 /\ miss_b = 0 /\ total = 0
    /\ min_block = 3 /\ max_block = 10
    /\ hors = << >> /\ forms = << >> /\ partners = << >> /\ pairs_file = << >>
    /\ df = << >> /\ ri = 1
    /\ in_block = FALSE /\ seen_non3 = FALSE
    /\ start_a = None /\ last_b_of_start = None
    /\ max_bs = None /\ end_b_at_max = None
    /\ blocks = << >>
    /\ infile = PairsName /\ NoOutput /\ NoExtract

\* Lines 379-382: no FASTA matched, the program exits with status 1.
BatchNoMatch ==
    /\ pc = "main" /\ fas = << >>
    /\ pc' = "exit1"
    /\ UNCHANGED <<relVars, horVars, consVars, mainVars, extVars>>

\* Lines 383-391: the pairs table of the next FASTA is missing; a warning,
\* and the loop goes on.
BatchSkip ==
    /\ pc = "main" /\ fi <= Len(fas)
    /\ ~fas[fi].pairs_exist
    /\ fi' = fi + 1
    /\ UNCHANGED <<pc, relVars, horVars, consVars, run, prev, fas, extVars>>

\* Lines 383-404: run_one is called for the next FASTA.  The call is not
\* inside a try: an error raised by run_one leaves main.
BatchPick ==
    /\ pc = "main" /\ fi <= Len(fas)
    /\ fas[fi].pairs_exist
    /\ arr' = [i \in 0..(fas[fi].n - 1) |-> LabelName(i)]
    /\ table' = fas[fi].rows
    /\ pc' = "read"
    /\ UNCHANGED <<header, scale, max_shift, id_threshold, S, thr, rowi,
                   miss_a, miss_b, total, horVars, consVars, mainVars, extVars>>

\* Line 337 and the loop of line 383: run_one has returned, next FASTA.
BatchNext ==
    /\ pc = "written"
    /\ fi' = fi + 1
    /\ pc' = "main"
    /\ UNCHANGED <<relVars, horVars, consVars, run, prev, fas, extVars>>

\* Lines 383-404: the list is exhausted, main returns.
BatchEnd ==
    /\ pc = "main" /\ fas # << >> /\ fi > Len(fas)
    /\ pc' = "exit0"
    /\ UNCHANGED <<relVars, horVars, consVars, mainVars, extVars>>

NextBatch == BatchNoMatch \/ BatchSkip \/ BatchPick \/ ReadFa \/ BuildStart
                \/ FillRow \/ ReturnS \/ FindHors \/ ComputeScores
                \/ WritePairs \/ BatchNext \/ BatchEnd

SpecBatch == InitBatch /\ [][NextBatch]_vars

(***************************************************************************)
(* Properties of build_similarity_from_pairs, checked under SpecRel.       *)
(***************************************************************************)
\* The numeric identity values of the table and their maximum.
NumericVals == {Float(table[k].iden)[1] :
                   k \in {x \in 1..Len(table) : Float(table[x].iden) # None}}
MaxNumeric == CHOOSE m \in NumericVals : \A v \in NumericVals : v <= m

\* The threshold the specification prescribes for the configured scale.
EffectiveThreshold ==
    CASE scale = "fraction" -> id_threshold
      [] scale = "percent"  -> id_threshold * 100
      [] OTHER -> IF MaxNumeric <= 150 THEN id_threshold
                  ELSE id_threshold * 100

\* Row k of the table relates the indices i and j.
RowRelates(k, i, j) ==
    LET r == table[k]
    IN  /\ \/ Strip(r.a) = arr[i] /\ Strip(r.b) = arr[j]
           \/ Strip(r.a) = arr[j] /\ Strip(r.b) = arr[i]
        /\ Float(r.iden) # None
        /\ Float(r.iden)[1] >= EffectiveThreshold
        /\ (max_shift = 0 \/ Abs(i - j) <= max_shift)

C4_SymmetricDiagonal ==
    pc \in {"fill", "built"} =>
        \A i \in DOMAIN arr :
            /\ S[i][i]
            /\ \A j \in DOMAIN arr : S[i][j] = S[j][i]

\* A row has been processed and has set an off-diagonal pair.
C4_Witness ==
    /\ pc = "fill" /\ rowi = 2 /\ Len(table) = 2
    /\ S[2][0] /\ S[0][2] /\ ~S[0][1]

\* C9: the threshold used to fill S is id_threshold on the fraction scale
\* and id_threshold * 100 on the percent scale; with scale = auto the scale
\* is fraction exactly when the largest numeric identity is <= 1.5.
C9_ScaleThreshold ==
    pc \in {"fill", "built"} => thr = EffectiveThreshold

\* An auto-scaled table whose maximum is exactly 1.5, filled on the
\* fraction scale.
C9_Witness ==
    /\ pc = "built" /\ scale = "auto" /\ Len(table) = 2
    /\ MaxNumeric = 150 /\ thr = id_threshold
    /\ \E i \in DOMAIN arr : \E j \in DOMAIN arr : i # j /\ S[i][j]

\* The row about to be processed names a label that is not in the array.
RowUnmatched ==
    /\ pc = "fill" /\ rowi <= Len(table)
    /\ \/ IdxGet(Strip(table[rowi].a)) = None
       \/ IdxGet(Strip(table[rowi].b)) = None

Found == pc \in {"found", "scored", "written", "loop", "done"}
Scored == pc \in {"scored", "written", "loop", "done"}

\* The triples (L, d, a0) the claim describes: a block of L related pairs
\* at offset d starting at a0 that fits in the array.
ValidTriples ==
    {t \in (min_block..max_block) \X (1..(N - 1)) \X (0..(N + 1)) :
        /\ t[3] + t[1] - 1 + t[2] <= N - 1
        /\ \A k \in 0..(t[1] - 1) : S[t[3] + k][t[3] + k + t[2]]}

EmittedTriples ==
    {<<hors[k].block_size, hors[k].shift, hors[k].a_start>> :
        k \in 1..Len(hors)}

C1_PositiveBlocks ==
    (Found /\ min_block >= 1) =>
             /\ EmittedTriples = ValidTriples
             /\ Cardinality(EmittedTriples) = Len(hors)

\* The example of the specification: N = 6, every pair related,
\* min_block = max_block = 3 gives three records at offset 1, starts 0,1,2.
C1_Example ==
    (Found /\ N = 6 /\ S = FullRelation(6)
           /\ min_block = 3 /\ max_block = 3) =>
        {hors[k].a_start : k \in {x \in 1..Len(hors) : hors[x].shift = 1}}
            = {0, 1, 2}

Consecutive(seq) == \A k \in 1..(Len(seq) - 1) : seq[k + 1] = seq[k] + 1

WellFormed(h) ==
    /\ min_block <= h.block_size /\ h.block_size <= max_block
    /\ Len(h.A_pos) = h.block_size
    /\ Len(h.B_pos) = h.block_size
    /\ Consecutive(h.A_pos) /\ Consecutive(h.B_pos)
    /\ \A k \in DOMAIN h.A_pos : h.B_pos[k] = h.A_pos[k] + h.shift

\* C2: every record has min_block <= block_size <= max_block, A_pos and
\* B_pos of length block_size, both runs of consecutive integers, and
\* B_pos[k] = A_pos[k] + shift.
C2_RecordsWellFormed ==
    Found => \A k \in 1..Len(hors) : WellFormed(hors[k])

\* The same statement for the configurations with min_block >= 0.
C2_NonNegativeBlocks ==
    (Found /\ min_block >= 0) => \A k \in 1..Len(hors) : WellFormed(hors[k])

\* The records that touch position i (0-based): i is in A_pos or in B_pos.
Touching(i) ==
    {k \in 1..Len(hors) :
        \/ \E x \in DOMAIN hors[k].A_pos : hors[k].A_pos[x] = i + 1
        \/ \E x \in DOMAIN hors[k].B_pos : hors[k].B_pos[x] = i + 1}

\* C7: forms[i] is the number of records that touch position i, each record
\* counted once.
C7_FormsCountsRecords ==
    Scored => \A i \in DOMAIN arr : forms[i] = Cardinality(Touching(i))

\* C8: the partner relation is symmetric, and for every record and every
\* t in [0, L) the positions a_start+t and b_start+t are partners of each
\* other.
C8_PartnersSymmetric ==
    Scored =>
        /\ \A i \in DOMAIN arr : \A j \in DOMAIN arr :
              (arr[j] \in partners[i]) <=> (arr[i] \in partners[j])
        /\ \A k \in 1..Len(hors) : \A t \in 0..(hors[k].block_size - 1) :
              /\ arr[hors[k].b_start + t] \in partners[hors[k].a_start + t]
              /\ arr[hors[k].a_start + t] \in partners[hors[k].b_start + t]

\* Scores of an array in which a block of 2 recurs at offset 2 only.
C8_Witness ==
    /\ pc = "scored" /\ N = 4 /\ Len(hors) = 1
    /\ hors[1].block_size = 2 /\ hors[1].shift = 2
    /\ partners[0] = {arr[2]} /\ partners[2] = {arr[0]}
    /\ partners[1] = {arr[3]} /\ partners[3] = {arr[1]}

\* C6: the segments emitted for a table written from find_hors are pairwise
\* non-overlapping, and every segment starts strictly after the end of the
\* segment emitted before it.
SegRange(sg) == sg.mono_start..sg.mono_end

C6_SegmentsOrdered ==
    /\ \A k \in 2..Len(blocks) :
          blocks[k].mono_start > blocks[k - 1].mono_end
    /\ \A k \in 1..Len(blocks) : \A m \in 1..Len(blocks) :
          k # m => SegRange(blocks[k]) \cap SegRange(blocks[m]) = {}

\* Two segments: the first closed after a larger block had been seen, the
\* second at the end of the file.
C6_Witness ==
    /\ pc = "done" /\ Len(blocks) = 2 /\ min_block = 3
    /\ blocks[1].blocksize_max = 4
    /\ blocks[1].mono_end >= blocks[1].mono_start
    /\ blocks[2].mono_end >= blocks[2].mono_start

\* The maximal runs of S at offset d, each <<start, length>>: related pairs
\* (k, k+d) for every k of the run, and none just before or just after it.
MaximalRuns(d) ==
    {r \in (0..(N - d - 1)) \X (1..(N - d)) :
        /\ r[1] + r[2] <= N - d
        /\ \A k \in 0..(r[2] - 1) : S[r[1] + k][r[1] + k + d]
        /\ (r[1] = 0 \/ ~S[r[1] - 1][r[1] - 1 + d])
        /\ (r[1] + r[2] = N - d \/ ~S[r[1] + r[2]][r[1] + r[2] + d])}

\* The records whose first block starts inside the run r at offset d.
RecordsOfRun(d, r) ==
    {k \in 1..Len(hors) :
        /\ hors[k].shift = d
        /\ hors[k].a_start \in r[1]..(r[1] + r[2] - 1)}

ExactlyOneAtStart(d, r) ==
    \E k \in 1..Len(hors) :
        /\ RecordsOfRun(d, r) = {k}
        /\ hors[k].block_size = min_block
        /\ hors[k].a_start = r[1]

\* C13 as stated: for every configuration, a maximal run shorter than
\* min_block gives no record and a maximal run of exactly min_block gives
\* exactly one record, of block_size min_block, starting where the run does.
C13_ShortAndExactRuns ==
    Found => \A d \in 1..(N - 1) : \A r \in MaximalRuns(d) :
                /\ r[2] < min_block => RecordsOfRun(d, r) = {}
                /\ r[2] = min_block => ExactlyOneAtStart(d, r)

\* C13 amended: a run shorter than min_block gives no record; a run of
\* exactly min_block gives exactly one record when min_block <= max_block,
\* and none when min_block > max_block.
C13_ExactRunWithinMaxBlock ==
    Found => \A d \in 1..(N - 1) : \A r \in MaximalRuns(d) :
                /\ r[2] < min_block => RecordsOfRun(d, r) = {}
                /\ (r[2] = min_block /\ min_block <= max_block)
                      => ExactlyOneAtStart(d, r)
                /\ (r[2] = min_block /\ min_block > max_block)
                      => RecordsOfRun(d, r) = {}

\* An array with a run of 3 and a run of 2 at offset 1 and min_block = 3:
\* the only record is that of the run of 3.
C13_Witness ==
    /\ pc = "found" /\ min_block = 3 /\ max_block = 4 /\ N > 1
    /\ \E r \in MaximalRuns(1) : r[2] = 3
    /\ \E r \in MaximalRuns(1) : r[2] = 2
    /\ Len(hors) = 1 /\ hors[1].block_size = 3

(***************************************************************************)
(* Properties of process_file, checked under SpecCons.                     *)
(***************************************************************************)
\* First A position and last B position of row k of the example stream.
TraceA(k) == first_int(TraceFile[k].A_pos)[1]
TraceB(k) == last_int(TraceFile[k].B_pos)[1]

TraceSeg1 == Segment(TraceA(1), TraceB(3), Some(5))
TraceSeg2 == Segment(TraceA(4), TraceB(5), Some(7))
TraceSeg3 == Segment(TraceA(6), TraceB(6), Some(3))

\* C5 as stated: the stream [3,3,5,3,7,3] gives exactly two segments; the
\* first, from record 1 to the end of the block of 5, is closed when record
\* 4 arrives; the second, from record 4 to the end of the block of 7, is
\* closed at the end of the input.
C5_TwoSegments ==
    pairs_file = TraceFile =>
        /\ (pc = "loop" /\ ri <= 4) => blocks = << >>
        /\ (pc = "loop" /\ ri >= 5) => blocks = << TraceSeg1 >>
        /\ pc = "done" => blocks = << TraceSeg1, TraceSeg2 >>

\* C5 amended: the stream gives exactly three segments; the first is closed
\* when record 4 arrives, the second (record 4 to the end of the block of 7,
\* blocksize_max 7) when the final record of size 3 arrives, and the third,
\* opened at that final record with blocksize_max 3, at the end of the
\* input.
C5_ThreeSegments ==
    pairs_file = TraceFile =>
        /\ (pc = "loop" /\ ri <= 4) => blocks = << >>
        /\ (pc = "loop" /\ ri \in {5, 6}) => blocks = << TraceSeg1 >>
        /\ (pc = "loop" /\ ri = 7) => blocks = << TraceSeg1, TraceSeg2 >>
        /\ pc = "done" => blocks = << TraceSeg1, TraceSeg2, TraceSeg3 >>

C5_Witness ==
    /\ pc = "done" /\ pairs_file = TraceFile
    /\ Len(df) = 6 /\ Len(blocks) = 3

\* The state of the loop of process_file.
loopVars == <<in_block, seen_non3, start_a, last_b_of_start, max_bs,
              end_b_at_max, blocks>>

\* The loop is about to take record df[ri].
AtRecord == pc = "loop" /\ ri <= Len(df)

\* C11: a stream of shift-1 records without a record of block_size 3 gives
\* no segment; and while no segment is open, a record whose block_size is
\* not 3 leaves the whole state of the loop unchanged and emits nothing.
C11_IgnoredOutside ==
    /\ []((pc = "done" /\ \A k \in 1..Len(df) : df[k].bs # 3)
              => (blocks = << >> /\ out = << >>))
    /\ [][(AtRecord /\ ~in_block /\ df[ri].bs # 3) => UNCHANGED loopVars]_vars

\* A stream of three records or more, none of size 3, one of size 5, read
\* to its end.
C11_Witness ==
    /\ pc = "done" /\ Len(df) >= 3
    /\ \A k \in 1..Len(df) : df[k].bs # 3
    /\ \E k \in 1..Len(df) : df[k].bs = 5
    /\ ~in_block /\ blocks = << >> /\ out = << >>

\* The window size each name of FileNames carries; None for no window size.
NameW(name) ==
    CASE name = <<"c", ".", "w", "2">>           -> Some(2)
      [] name = <<"w", "x", "w", "1", "0">>      -> Some(10)
      [] name = <<"w", "0">>                     -> Some(0)
      [] OTHER                                   -> None

\* C12: every row of the returned frame has mono_count = mono_end -
\* mono_start + 1 and win_bp = mono_count * w, w being the window size in the
\* name of the input file; win_bp is empty when the name has no window size
\* or a window size of 0.  The rows are the emitted segments, in order.
C12_CountAndWinBp ==
    pc = "done" =>
        /\ Len(out) = Len(blocks)
        /\ \A k \in 1..Len(out) :
              /\ out[k].mono_start = blocks[k].mono_start
              /\ out[k].mono_end = blocks[k].mono_end
              /\ out[k].mono_count = out[k].mono_end - out[k].mono_start + 1
              /\ out[k].win_bp =
                    IF NameW(infile) # None /\ NameW(infile)[1] # 0
                    THEN Some(out[k].mono_count * NameW(infile)[1])
                    ELSE None

\* Two segments of a file whose name has "w" twice, the second time with
\* the window size 10.
C12_Witness ==
    /\ pc = "done" /\ Len(out) = 2 /\ infile = <<"w", "x", "w", "1", "0">>
    /\ out[1].mono_count > 1
    /\ out[1].win_bp = Some(out[1].mono_count * 10)
    /\ out[2].win_bp = Some(out[2].mono_count * 10)

\* The record that opened the segment now open: the latest record of size
\* 3 before df[ri] whose first A position is the start of the segment.
OpenedAt ==
    CHOOSE o \in 1..(ri - 1) :
        /\ df[o].bs = 3 /\ df[o].a = start_a[1]
        /\ \A k \in (o + 1)..(ri - 1) : ~(df[k].bs = 3 /\ df[k].a = start_a[1])

\* The largest block_size among the records from o up to the one before
\* df[ri], and the latest of those records that has it.
MaxSince(o) ==
    CHOOSE m \in {df[k].bs : k \in o..(ri - 1)} :
        \A k \in o..(ri - 1) : df[k].bs <= m
LatestOfSize(o, m) ==
    CHOOSE k \in o..(ri - 1) :
        /\ df[k].bs = m
        /\ \A j \in (k + 1)..(ri - 1) : df[j].bs # m

\* A record of size 3 closes the open segment and opens the next: exactly
\* one segment is emitted, from the first A position of the opening record
\* to the last B position of the latest record of the largest size, and the
\* new segment starts at the current record.
ClosesAndReopens ==
    LET o == OpenedAt
        m == MaxSince(o)
    IN  /\ blocks' = Append(blocks,
                        [mono_start |-> df[o].a,
                         mono_end |-> df[LatestOfSize(o, m)].b,
                         mono_count |-> df[LatestOfSize(o, m)].b - df[o].a + 1,
                         blocksize_max |-> m])
        /\ in_block' /\ ~seen_non3'
        /\ start_a' = Some(df[ri].a)
        /\ last_b_of_start' = Some(df[ri].b)
        /\ max_bs' = Some(3)

\* C19: in a segment with seen_larger true (seen_non3 in the code), a
\* record of block_size 3 emits exactly one segment {start, close_end,
\* max_block}: start the first A position of the opening record, max_block
\* the largest block_size seen since, close_end the last B position of the
\* most recent record of that size; and a new segment is opened at the
\* current record with max_block 3 and seen_larger false.
C19_CloseAtLatestMax ==
    [][(AtRecord /\ in_block /\ seen_non3 /\ df[ri].bs = 3)
          => ClosesAndReopens]_vars

\* The same statement for the streams in which no record is smaller than 3.
C19_SizesAtLeastThree ==
    [][(AtRecord /\ in_block /\ seen_non3 /\ df[ri].bs = 3
           /\ \A k \in 1..Len(df) : df[k].bs >= 3)
          => ClosesAndReopens]_vars

\* C20: in a segment, a record of block_size > 3 sets seen_larger and emits
\* nothing; a size above max_block becomes max_block and its last B position
\* close_end; a size equal to max_block moves close_end to its last B
\* position; a smaller size changes neither; start and the running end are
\* unchanged in all three cases.
C20_LargerRecord ==
    [][(AtRecord /\ in_block /\ df[ri].bs > 3) =>
          /\ seen_non3' /\ in_block'
          /\ blocks' = blocks
          /\ start_a' = start_a /\ last_b_of_start' = last_b_of_start
          /\ df[ri].bs > max_bs[1] =>
                (max_bs' = Some(df[ri].bs) /\ end_b_at_max' = Some(df[ri].b))
          /\ df[ri].bs = max_bs[1] =>
                (max_bs' = max_bs /\ end_b_at_max' = Some(df[ri].b))
          /\ df[ri].bs < max_bs[1] =>
                (max_bs' = max_bs /\ end_b_at_max' = end_b_at_max)]_vars

\* A segment that has taken a 7, a smaller 5 and a second 7: the end is
\* that of the second 7.
C20_Witness ==
    /\ pc = "loop" /\ ri = 5 /\ in_block /\ seen_non3
    /\ df[1].bs = 3 /\ df[2].bs = 7 /\ df[3].bs = 5 /\ df[4].bs = 7
    /\ max_bs = Some(7) /\ end_b_at_max = Some(df[4].b)
    /\ start_a = Some(df[1].a) /\ blocks = << >>

(***************************************************************************)
(* Properties of whole runs, checked under SpecRun.                        *)
(***************************************************************************)
\* The relation has been returned by build_similarity_from_pairs.
Returned == pc \in {"built", "found", "scored", "written"}
NothingWritten == pairs_file = << >> /\ score_file = << >>

\* C15: with fewer than 2 labels the run fails with an empty-input error: no
\* relation is returned and neither table is written.
C15_FewLabelsRejected ==
    N < 2 => (~Returned /\ NothingWritten)

\* The table has no numeric identity: no identity column, or no row whose
\* identity cell is a number.
NoNumericIdentity ==
    \/ "iden" \notin header
    \/ \A k \in 1..Len(table) : Float(table[k].iden) = None

\* C16: with scale = auto and no numeric identity in the table, relation
\* construction raises the error of the undecidable scale instead of
\* returning a relation, and neither table is written.
C16_NoNumericIsDataError ==
    (scale = "auto" /\ NoNumericIdentity) =>
        /\ pc \in {"read", "EmptyFasta", "build", "ValueError"}
        /\ NothingWritten

\* The error raised for a table of one row whose identity is "NA".
C16_Witness ==
    /\ pc = "ValueError" /\ scale = "auto" /\ header = Columns
    /\ Len(table) = 1 /\ table[1].iden = "NA"
    /\ N = 2 /\ NothingWritten

\* C17: when the header lacks a configured column, relation construction
\* fails in every scale mode: no relation is returned, no table is written.
C17_MissingColumnRejected ==
    header # Columns => (~Returned /\ NothingWritten)

Stopped == pc \in {"exit0", "ValueError", "EmptyFasta"}

\* C14: in batch mode an array whose processing raises a fatal error is
\* skipped and every remaining array is still processed: whenever the
\* driver has stopped on a list of arrays, it has returned normally and has
\* gone through the whole list.
C14_FailureIsolated ==
    (Stopped /\ fas # << >>) => (pc = "exit0" /\ fi = Len(fas) + 1)

(***************************************************************************)
(* Further properties of find_hors and compute_scores, checked under Spec. *)
(***************************************************************************)
\* C24: for every offset d the scan ends, and the runs it detects are the
\* maximal runs of the diagonal, each once: a run has at least one pair, the
\* scan resumes at start + Lrun, so the next run starts at or after that
\* index and no start index is in two runs, and the pair just after a run
\* is unrelated or beyond the end of the diagonal.
C24_RunsMaximalDisjoint ==
    Found => \A d \in 1..(N - 1) :
        /\ \A k \in 1..Len(runs[d]) :
              /\ runs[d][k][2] >= 1
              /\ runs[d][k] \in MaximalRuns(d)
              /\ \/ runs[d][k][1] + runs[d][k][2] = N - d
                 \/ ~S[runs[d][k][1] + runs[d][k][2]]
                      [runs[d][k][1] + runs[d][k][2] + d]
        /\ \A k \in 1..(Len(runs[d]) - 1) :
              runs[d][k + 1][1] >= runs[d][k][1] + runs[d][k][2]
        /\ {runs[d][k] : k \in 1..Len(runs[d])} = MaximalRuns(d)

\* At offset 1, a run of more than one pair followed by an unrelated pair,
\* and a later run that reaches the end of the diagonal.
C24_Witness ==
    /\ pc = "found" /\ N >= 6 /\ Len(runs[1]) = 2
    /\ runs[1][1][2] >= 2
    /\ ~S[runs[1][1][1] + runs[1][1][2]][runs[1][1][1] + runs[1][1][2] + 1]
    /\ runs[1][2][1] + runs[1][2][2] = N - 1

\* C29: for every relation and every configuration, every record has
\* 0 <= a_start and b_start + block_size <= N, all its positions lie in
\* 1..N, and the indices a_start + t, b_start + t that compute_scores uses
\* lie in 0..N-1.
C29_PositionsInArray ==
    Found => \A k \in 1..Len(hors) :
        /\ 0 <= hors[k].a_start
        /\ hors[k].b_start + hors[k].block_size <= N
        /\ \A x \in DOMAIN hors[k].A_pos : hors[k].A_pos[x] \in 1..N
        /\ \A x \in DOMAIN hors[k].B_pos : hors[k].B_pos[x] \in 1..N
        /\ \A t \in 0..(hors[k].block_size - 1) :
              /\ hors[k].a_start + t \in DOMAIN arr
              /\ hors[k].b_start + t \in DOMAIN arr

\* A record whose second block ends on the last label of the array, and a
\* record of block_size -1 starting one past the end of its diagonal.
C29_Witness ==
    /\ pc = "found" /\ min_block = 0 - 1
    /\ \E k \in 1..Len(hors) :
          /\ hors[k].block_size >= 2
          /\ hors[k].b_start + hors[k].block_size = N
    /\ \E k \in 1..Len(hors) :
          /\ hors[k].block_size = 0 - 1
          /\ hors[k].b_start = N + 1

\* The positions j # i that S relates to i.
SimilarTo(i) == {j \in DOMAIN arr : j # i /\ S[i][j]}

\* C30: every partner of a position is a distinct similar position: arr[j]
\* in partners[i] implies i # j and S[i][j]; so Unique_partners of a
\* position is at most N - 1 and at most the number of true off-diagonal
\* entries of its row of S.
C30_PartnersAreSimilar ==
    Scored =>
        /\ \A i \in DOMAIN arr : \A j \in DOMAIN arr :
              arr[j] \in partners[i] => (i # j /\ S[i][j])
        /\ \A i \in DOMAIN arr :
              /\ rows[i + 1].Unique_partners_in_2nd_block <= N - 1
              /\ rows[i + 1].Unique_partners_in_2nd_block
                    <= Cardinality(SimilarTo(i))

\* Three labels all related, blocks of 1: the middle one has both others
\* as partners.
C30_Witness ==
    /\ pc = "scored" /\ N = 3 /\ min_block = 1
    /\ partners[1] = {arr[0], arr[2]}
    /\ rows[2].Unique_partners_in_2nd_block = 2

(***************************************************************************)
(* Further properties of process_file, checked under SpecCons.             *)
(***************************************************************************)
\* The loop has taken every record.
AtEndOfInput == pc = "loop" /\ ri > Len(df)

IsShiftOne(r) == r.shift = 1

\* C23: the segments depend only on the rows of shift 1, in their order:
\* the table with every other row deleted gives the same segments, so
\* inserting, deleting or changing rows of another shift changes nothing.
C23_OnlyShiftOneRows ==
    pc = "done" => blocks = Segments(SelectSeq(pairs_file, IsShiftOne))

\* A table in which rows of shift 2, one of them of size 3, stand between
\* rows of shift 1 that give a segment.
C23_Witness ==
    /\ pc = "done" /\ Len(pairs_file) >= 3 /\ Len(blocks) >= 1
    /\ pairs_file[1].shift = 2 /\ pairs_file[1].block_size = 3
    /\ pairs_file[2].shift = 1 /\ pairs_file[2].block_size = 3
    /\ pairs_file[3].shift = 2 /\ pairs_file[3].block_size = 7
    /\ blocks[1].blocksize_max = 3
    /\ blocks[1].mono_start = first_int(pairs_file[2].A_pos)[1]

\* C27: seen_larger (seen_non3) is true only if a record of block_size
\* above 3 was taken since the segment was opened; a record below 3 never
\* sets it.
C27_SeenOnlyAfterLarger ==
    (pc = "loop" /\ in_block /\ seen_non3) =>
        \E k \in OpenedAt..(ri - 1) : df[k].bs > 3

\* The same statement for the streams in which no record is smaller than 3.
C27_SizesAtLeastThree ==
    (pc = "loop" /\ in_block /\ seen_non3
        /\ \A k \in 1..Len(df) : df[k].bs >= 3) =>
        \E k \in OpenedAt..(ri - 1) : df[k].bs > 3

\* The records of size 3 that arrive while a segment is open and
\* seen_larger is true.
Closings ==
    {k \in 1..Len(df) :
        /\ df[k].bs = 3
        /\ StateAfter(df, k - 1).in_block
        /\ StateAfter(df, k - 1).seen_non3}

RecordedRuns == {r \in MaximalRuns(1) : r[2] >= 3 /\ max_block >= 3}

\* A run whose records all have block_size 3.
OnlyThrees(r) == r[2] < 4 \/ max_block < 4

\* The segment covers the adjacent positions p, p + 1 and they are unrelated.
BridgesGap(sg) ==
    \E p \in sg.mono_start..(sg.mono_end - 1) : ~S[p - 1][p]

\* C26 as stated: with min_block = 3 no emitted segment contains adjacent
\* positions p, p + 1 that are unrelated in S, so no segment bridges a gap
\* between two runs.
C26_NoSegmentBridgesGap ==
    (pc = "done" /\ min_block = 3) =>
        \A k \in 1..Len(blocks) : ~BridgesGap(blocks[k])

\* C26, amended: with min_block = 3 every emitted segment starts at the
\* first position of a maximal offset-1 run of at least 3 pairs and ends at
\* the last position of such a run, and every such run that starts in the
\* segment before that last run gave records of block_size 3 only; so a
\* segment bridges gaps only after runs without a larger record, and lies
\* inside one run when its first run has a record larger than 3.
C26_SegmentSpansRuns ==
    (pc = "done" /\ min_block = 3) =>
        \A k \in 1..Len(blocks) :
            \E r1 \in RecordedRuns : \E r2 \in RecordedRuns :
                /\ r1[1] <= r2[1]
                /\ blocks[k].mono_start = r1[1] + 1
                /\ blocks[k].mono_end = r2[1] + r2[2] + 1
                /\ \A r \in RecordedRuns :
                      (r1[1] <= r[1] /\ r[1] < r2[1]) => OnlyThrees(r)
                /\ (~OnlyThrees(r1)) => r2 = r1

\* Two runs of three pairs with an unrelated pair between them, joined in
\* one segment.
C26_Witness ==
    /\ pc = "done" /\ min_block = 3 /\ N = 8
    /\ ~S[3][4]
    /\ <<0, 3>> \in MaximalRuns(1) /\ <<4, 3>> \in MaximalRuns(1)
    /\ Len(blocks) = 1
    /\ blocks[1].mono_start = 1 /\ blocks[1].mono_end = 8
    /\ BridgesGap(blocks[1])

(***************************************************************************)
(* 1.Batch_extract_Pairswise_Identity.py: main and the outcome of          *)
(* process_one.  A matched FASTA is described by what process_one finds:   *)
(* whether its name has the form <prefix>.ChrNN.wW.Top1.fa, whether the    *)
(* moddot directory exists, how many .bed files it holds, whether a window *)
(* size can be read from the FASTA (win = 0: no sequence of positive       *)
(* length) and whether every kept row of the .bed names a region           *)
(* chrom:start-end.  name orders the paths as sorted() does.               *)
(***************************************************************************)
ExtN == 3    \* at most ExtN FASTA files match the pattern

FaFiles ==
    {f \in [name : 1..ExtN, name_ok : BOOLEAN, mod_dir : BOOLEAN,
            beds : 0..2, win : 0..1, region_ok : BOOLEAN] :
        Cardinality({c \in 1..5 :
            \/ c = 1 /\ ~f.name_ok
            \/ c = 2 /\ ~f.mod_dir
            \/ c = 3 /\ f.beds # 1
            \/ c = 4 /\ f.win = 0
            \/ c = 5 /\ ~f.region_ok}) <= 1}

\* What glob can return: distinct paths in any order.
Matches ==
    {m \in UNION {[1..n -> FaFiles] : n \in 0..ExtN} :
        \A i \in 1..Len(m) : \A j \in 1..Len(m) :
            i # j => m[i].name # m[j].name}

\* Lines 58-147: the exception process_one raises for a FASTA, or "ok" when
\* it writes the table and returns.
process_one(fa) ==
    IF ~fa.name_ok THEN "ValueError"
    ELSE IF ~fa.mod_dir THEN "FileNotFoundError"
    ELSE IF fa.beds # 1 THEN "RuntimeError"
    ELSE IF fa.win = 0 THEN "ValueError"
    ELSE IF ~fa.region_ok THEN "ValueError"
    ELSE "ok"

\* A variant that keeps the order glob gave.
GlobOrder(m) == m

\* Line 159: sorted() of the distinct paths.
sorted(m) ==
    [i \in 1..Len(m) |->
        CHOOSE x \in {m[k] : k \in 1..Len(m)} :
            Cardinality({k \in 1..Len(m) : m[k].name < x.name}) = i - 1]

InitExtract ==
    /\ pc = "xmain"
    /\ matched \in Matches
    /\ visited = << >> /\ ok = 0 /\ fail = 0
    /\ OneRun
    /\ arr = << >> /\ header = Columns /\ table = << >> /\ scale = "auto"
    /\ max_shift = 0
    /\ id_threshold = DefaultIdThreshold /\ S = << >> /\ thr = 0
    /\ rowi = 1 /\ miss_a = 0 /\ miss_b = 0 /\ total = 0
    /\ min_block = 3 /\ max_block = 10
    /\ hors = << >> /\ forms = << >> /\ partners = << >> /\ pairs_file = << >>
    /\ df = << >> /\ ri = 1
    /\ in_block = FALSE /\ seen_non3 = FALSE
    /\ start_a = None /\ last_b_of_start = None
    /\ max_bs = None /\ end_b_at_max = None
    /\ blocks = << >>
    /\ infile = PairsName /\ NoOutput

\* Lines 159-162: nothing matched, an error line and exit status 1.
ExtractNoMatch ==
    /\ pc = "xmain" /\ sorted(matched) = << >>
    /\ fas' = sorted(matched)
    /\ pc' = "exit1"
    /\ UNCHANGED <<relVars, horVars, consVars, run, prev, fi, extVars>>

\* Lines 159-164: the matched paths are sorted and the counters start at 0.
ExtractStart ==
    /\ pc = "xmain" /\ sorted(matched) # << >>
    /\ fas' = sorted(matched)
    /\ fi' = 1
    /\ ok' = 0 /\ fail' = 0
    /\ pc' = "xloop"
    /\ UNCHANGED <<relVars, horVars, consVars, run, prev, matched, visited>>

\* Lines 165-168: process_one returns; its [OK  ] line, and ok counts it.
ExtractOk ==
    /\ pc = "xloop" /\ fi <= Len(fas)
    /\ process_one(fas[fi]) = "ok"
    /\ visited' = Append(visited, [name |-> fas[fi].name, line |-> "OK"])
    /\ ok' = ok + 1
    /\ fi' = fi + 1
    /\ UNCHANGED <<pc, relVars, horVars, consVars, run, prev, fas,
                   matched, fail>>

\* Lines 165-171: process_one raises; the handler logs a [FAIL] line, fail
\* counts it and the loop goes on.
ExtractFail ==
    /\ pc = "xloop" /\ fi <= Len(fas)
    /\ process_one(fas[fi]) # "ok"
    /\ visited' = Append(visited, [name |-> fas[fi].name, line |-> "FAIL"])
    /\ fail' = fail + 1
    /\ fi' = fi + 1
    /\ UNCHANGED <<pc, relVars, horVars, consVars, run, prev, fas,
                   matched, ok>>

\* Line 172: the list is exhausted, the [DONE] line reports ok and fail.
ExtractDone ==
    /\ pc = "xloop" /\ fi > Len(fas)
    /\ pc' = "xdone"
    /\ UNCHANGED <<relVars, horVars, consVars, mainVars, extVars>>

NextExtract == ExtractNoMatch \/ ExtractStart \/ ExtractOk \/ ExtractFail
                  \/ ExtractDone

SpecExtract == InitExtract /\ [][NextExtract]_vars

\* The names of the matched paths.
MatchedNames == {matched[k].name : k \in 1..Len(matched)}

\* C25: the extraction driver handles every matched FASTA exactly once in
\* sorted order: a step of the loop, whether process_one returns or raises,
\* logs one line for the current FASTA, adds one to ok + fail and stays in
\* the loop at the next FASTA; and when the [DONE] line is written the lines
\* logged are for the matched names in increasing order, each once, the
\* [FAIL] lines are those of the FASTAs for which process_one raises, and
\* ok + fail is the number of matched files.
C25_EveryFastaOnceInOrder ==
    /\ [][(pc = "xloop" /\ fi <= Len(fas)) =>
            /\ pc' = "xloop" /\ fi' = fi + 1
            /\ Len(visited') = Len(visited) + 1
            /\ visited'[Len(visited')].name = fas[fi].name
            /\ ok' + fail' = ok + fail + 1]_vars
    /\ [](pc = "xdone" =>
            /\ Len(visited) = Len(matched)
            /\ {visited[k].name : k \in 1..Len(visited)} = MatchedNames
            /\ \A k \in 1..(Len(visited) - 1) :
                  visited[k].name < visited[k + 1].name
            /\ \A k \in 1..Len(visited) : \A j \in 1..Len(matched) :
                  matched[j].name = visited[k].name =>
                      (visited[k].line = "FAIL"
                          <=> process_one(matched[j]) # "ok")
            /\ fail = Cardinality({k \in 1..Len(visited) :
                                      visited[k].line = "FAIL"})
            /\ ok + fail = Len(matched))

\* glob gave two paths out of order; the first in sorted order failed, the
\* second was still processed, and the tally is one and one.
C25_Witness ==
    /\ pc = "xdone"
    /\ Len(matched) = 2 /\ matched[1].name > matched[2].name
    /\ visited[1].line = "FAIL" /\ visited[2].line = "OK"
    /\ ok = 1 /\ fail = 1

====
